---- MODULE Spec2Model ----
(***************************************************************************)
(* A model of the CTF file-system source (plugins/ctf/fs-src/fs.c) and of  *)
(* the CTF writer sink's event handling (plugins/ctf/fs-sink/write.c).     *)
(*                                                                         *)
(* Five parts share the module , each with its own specification:          *)
(*   SpecIter  - the per-port notification iterator of the source          *)
(*   SpecGroup - the grouping of data stream files while a trace is built  *)
(*   SpecSink  - the sink's mirroring of traces, stream classes, streams   *)
(*   SpecDisc  - the source's search for trace directories below a path    *)
(*   SpecQuery - the source's metadata-info query                          *)
(***************************************************************************)
EXTENDS Integers, Sequences, FiniteSets, TLC

(***************************************************************************)
(* Bounds of the model                                                     *)
(***************************************************************************)
\* most data stream files in the group an iterator walks
MaxFiles == 2
\* most notifications held by all the files of that group together
MaxTotal == 5
\* most times the data of one iterator is freed that the model follows
MaxDestroys == 2

(***************************************************************************)
(* State                                                                   *)
(***************************************************************************)
\* Part 1 - the source's notification iterator (struct ctf_fs_notif_iter_data)
VARIABLES
    ds_file_infos,        \* the bound group's files, in group order; each entry
                          \* is what the file's reader decodes: a sequence of kinds
    ds_file_info_index,   \* notif_iter_data->ds_file_info_index
    ds_file,              \* notif_iter_data->ds_file: the open reader, or none
    iter_state,           \* "uninit", "ready", "failed" (init failed), "aborted"
                          \* (an assertion failed), "finalized", "crashed",
                          \* "undefined" (a read past the end of the array of
                          \* file infos, the assertion being compiled out)
    next_status,          \* status of the last ctf_fs_iterator_next() ("NONE" before)
    emitted,              \* notifications returned by next() so far, in order
    faulted,              \* a reader status other than OK/END, or a failed open, occurred
    reader_status,        \* status of the last ctf_fs_ds_file_next() ("NONE" before)
    user_data,            \* the iterator's user data pointer is set (not NULL)
    destroy_count         \* times ctf_fs_notif_iter_data_destroy() freed the data

\* Part 2 - a trace being created (struct ctf_fs_trace, struct ctf_fs_component)
VARIABLES
    trace_pc,             \* where ctf_fs_trace_create() stands: "metadata",
                          \* "groups", "done", "error"
    stream_class_count,   \* stream classes of the trace's metadata (ids 1..count)
    ds_file_groups,       \* ctf_fs_trace->ds_file_groups
    n_files,              \* stream files handed to add_ds_file_to_ds_file_group()
    port_data,            \* ctf_fs->port_data: one entry per port created
    is_static,            \* the trace was marked static
    n_ignored,            \* directory entries create_ds_file_groups() passed over
    last_entry,           \* what the directory entry looked at last was (see
                          \* DirEntryKinds), "none" before the first
    last_header,          \* what the first packet of the stream file handed
                          \* last to add_ds_file_to_ds_file_group() has: "absent"
                          \* (no packet header), "no_stream_id" (a header
                          \* without that field), "stream_id"; "none" before
    last_class            \* the stream class stream_class_from_packet_header()
                          \* gave for that file, NoClass for NULL

\* Part 3 - the sink (struct writer_component) and what it has written
VARIABLES
    trace_map,            \* writer_component->trace_map: input trace -> writer
    stream_class_map,     \* ...->stream_class_map: input class -> output class
    stream_map,           \* ...->stream_map: input stream -> output stream
    trace_id,             \* ...->trace_id: the next output directory number
    writers,              \* every bt_ctf_writer_create() call so far, in order
    out_classes,          \* the output stream classes created, in order
    out_streams,          \* the output streams created, in order
    sink_ret,             \* status returned for the last notification
    n_notifs,             \* notifications handed to the sink so far
    sink_notif,           \* the last notification handed to the sink
    packet_state          \* per input stream, the state the accepted
                          \* notifications put it in: "Uninit", "PacketOpen",
                          \* "PacketClosed" (the sink keeps no such field)

\* Part 4 - looking for traces below the path parameter (create_ctf_fs_traces)
VARIABLES
    fs_tree,              \* what each path of the directory tree is (see NodeKinds)
    root_is_slash,        \* realpath() of the path parameter is "/"
    dir_order,            \* the order in which g_dir_read_name() lists entries
    trace_paths,          \* the GList of trace paths, head first
    find_ret,             \* what find_ctf_traces() returned for the path parameter
    disc_pc,              \* "start", "found", "error"
    fs_link,              \* the path that is a symbolic link to the entry listed
                          \* next to it, 0 when there is none
    load_fails,           \* the place in the list of the trace that fails to
                          \* load, 0 when every trace loads
    trace_names,          \* the GList of trace names, head first
    traces,               \* ctf_fs->traces when create_ctf_fs_traces() returns
    create_ret,           \* what create_ctf_fs_traces() returned
    init_status           \* what ctf_fs_init() returned: "NONE" before it ran

\* Part 5 - the metadata-info query (ctf_fs_query)
VARIABLES
    query_object,         \* the object asked for, "NONE" before a query
    query_fault,          \* what went wrong in the query, "none" if nothing
    is_packetized,        \* ctf_metadata_decoder_is_packetized() of the file
    metadata_text,        \* the file's text: read raw, or as decoded
    results               \* the value returned: NoResults or a map

iterVars == <<ds_file_infos, ds_file_info_index, ds_file, iter_state,
              next_status, emitted, faulted, reader_status, user_data,
              destroy_count>>

groupVars == <<trace_pc, stream_class_count, ds_file_groups, n_files,
               port_data, is_static, n_ignored, last_entry, last_header,
               last_class>>

sinkVars == <<trace_map, stream_class_map, stream_map, trace_id, writers,
              out_classes, out_streams, sink_ret, n_notifs, sink_notif,
              packet_state>>

discVars == <<fs_tree, root_is_slash, dir_order, trace_paths, find_ret, disc_pc,
              fs_link, load_fails, trace_names, traces, create_ret,
              init_status>>

queryVars == <<query_object, query_fault, is_packetized, metadata_text,
               results>>

vars == <<iterVars, groupVars, sinkVars, discVars, queryVars>>

(***************************************************************************)
(* Generic helpers                                                         *)
(***************************************************************************)
RECURSIVE SumTo(_, _)
SumTo(f, n) == IF n = 0 THEN 0 ELSE f[n] + SumTo(f, n - 1)

RECURSIVE Concat(_, _)
\* ss[1] \o ... \o ss[n]
Concat(ss, n) == IF n = 0 THEN << >> ELSE Concat(ss, n - 1) \o ss[n]

IsPrefix(s, t) == /\ Len(s) <= Len(t)
                  /\ \A i \in 1..Len(s) : s[i] = t[i]

(***************************************************************************)
(* Part 1 - the source's notification iterator                             *)
(***************************************************************************)
Kinds == {"PB", "E", "PE"}

\* statuses a reader may report besides OK (a notification) and END
OtherStatuses == {"ERROR", "AGAIN"}

\* notif_iter_data->ds_file == NULL
NoDsFile == [open |-> FALSE, idx |-> 0, pos |-> 0]

\* the files of a group cut out of one flat sequence: file i has lens[i] entries
Split(flat, lens) ==
    [i \in DOMAIN lens |->
        SubSeq(flat, SumTo(lens, i - 1) + 1, SumTo(lens, i))]

\* the n-th notification file number idx holds (0-based idx and pos as in the code)
Notif(idx, pos) == [kind |-> ds_file_infos[idx + 1][pos + 1], file |-> idx, seq |-> pos]

\* every notification of file idx, in reader order
FileNotifs(idx) ==
    [p \in 1..Len(ds_file_infos[idx + 1]) |-> Notif(idx, p - 1)]

\* seq(f0) ++ seq(f1) ++ ... of the whole group
GroupNotifs ==
    Concat([i \in 1..Len(ds_file_infos) |-> FileNotifs(i - 1)], Len(ds_file_infos))

\* the groups a port may carry: 1..MaxFiles files, MaxTotal notifications in all
PortGroups ==
    UNION {UNION {{Split(flat, lens) : flat \in [1..SumTo(lens, k) -> Kinds]} :
                    lens \in {l \in [1..k -> 0..MaxTotal] : SumTo(l, k) <= MaxTotal}} :
             k \in 1..MaxFiles}

\* before ctf_fs_iterator_init(): no iterator data yet
InitIter ==
    /\ ds_file_infos = << >>
    /\ ds_file_info_index = 0
    /\ ds_file = NoDsFile
    /\ iter_state = "uninit"
    /\ next_status = "NONE"
    /\ emitted = << >>
    /\ faulted = FALSE
    /\ reader_status = "NONE"
    /\ user_data = FALSE
    /\ destroy_count = 0

\* faulty variant: the new reader starts past the file's first notification
ctf_fs_ds_file_create_Eager(idx) == [open |-> TRUE, idx |-> idx, pos |-> 1]
\* ctf_fs_ds_file_create() for the file at index idx: a reader at its start
ctf_fs_ds_file_create(idx) == [open |-> TRUE, idx |-> idx, pos |-> 0]

\* faulty variant: a status that is neither OK nor END is returned as ERROR
next_ret_status_Error(status) ==
    IF status \in {"OK", "END"} THEN status ELSE "ERROR"
\* "return next_ret": the status of the last read is the status of next()
next_ret_status(status) == status

\* faulty variant: the index moves on by two files
NextFileIndex_Skip(i) == i + 2
\* ds_file_info_index++ when the current file is exhausted
NextFileIndex(i) == i + 1

\* the reader has a notification left / is at its end
ReaderHasNotif(r) == r.pos < Len(ds_file_infos[r.idx + 1])

\* ctf_fs_iterator_init(): bind the group, open its first file
ctf_fs_iterator_init ==
    /\ iter_state = "uninit"
    /\ ds_file_infos' \in PortGroups    \* port_data->ds_file_group
    /\ ds_file_info_index' = 0
    /\ \/ /\ ds_file' = ctf_fs_ds_file_create(0)
          /\ iter_state' = "ready"
          /\ user_data' = TRUE            \* ..._set_user_data(it, notif_iter_data)
          /\ UNCHANGED faulted
       \/ /\ ds_file' = NoDsFile          \* ctf_fs_ds_file_create() returned NULL
          /\ iter_state' = "failed"
          /\ user_data' = FALSE           \* ..._set_user_data(it, NULL)
          /\ faulted' = TRUE
    /\ UNCHANGED <<next_status, emitted, reader_status, destroy_count>>
    /\ UNCHANGED <<groupVars, sinkVars, discVars,
                   queryVars>>

\* next(): assert(notif_iter_data->ds_file) fails
NextNoReader ==
    /\ iter_state = "ready"
    /\ ~ds_file.open
    /\ iter_state' = "aborted"
    /\ next_status' = "ABORT"
    /\ UNCHANGED <<ds_file_infos, ds_file_info_index, ds_file, emitted, faulted>>
    /\ UNCHANGED <<reader_status, user_data, destroy_count>>
    /\ UNCHANGED <<groupVars, sinkVars, discVars,
                   queryVars>>

\* next(): the current reader yields a notification
NextNotification ==
    /\ iter_state = "ready"
    /\ ds_file.open
    /\ ReaderHasNotif(ds_file)
    /\ emitted' = Append(emitted, Notif(ds_file.idx, ds_file.pos))
    /\ ds_file' = [ds_file EXCEPT !.pos = @ + 1]
    /\ reader_status' = "OK"
    /\ next_status' = next_ret_status("OK")
    /\ UNCHANGED <<ds_file_infos, ds_file_info_index, iter_state, faulted>>
    /\ UNCHANGED <<user_data, destroy_count>>
    /\ UNCHANGED <<groupVars, sinkVars, discVars,
                   queryVars>>

\* next(): the current reader reports a status that is neither OK nor END
NextReaderStatus ==
    /\ iter_state = "ready"
    /\ ds_file.open
    /\ \E st \in OtherStatuses :
        /\ reader_status' = st
        /\ next_status' = next_ret_status(st)
    /\ faulted' = TRUE
    /\ UNCHANGED <<ds_file_infos, ds_file_info_index, ds_file, iter_state, emitted>>
    /\ UNCHANGED <<user_data, destroy_count>>
    /\ UNCHANGED <<groupVars, sinkVars, discVars,
                   queryVars>>

\* next(): the current reader is at END and it was the last file of the group
NextEndOfGroup ==
    /\ iter_state = "ready"
    /\ ds_file.open
    /\ ~ReaderHasNotif(ds_file)
    /\ NextFileIndex(ds_file_info_index) = Len(ds_file_infos)
    /\ ds_file_info_index' = NextFileIndex(ds_file_info_index)
    /\ reader_status' = "END"
    /\ next_status' = next_ret_status("END")
    /\ UNCHANGED <<ds_file_infos, ds_file, iter_state, emitted, faulted>>
    /\ UNCHANGED <<user_data, destroy_count>>
    /\ UNCHANGED <<groupVars, sinkVars, discVars,
                   queryVars>>

\* next(): the current reader is at END, the index moves on and does not equal
\* the group's length: notif_iter_data_set_current_ds_file(), then a second read
NextSwitchFile ==
    /\ iter_state = "ready"
    /\ ds_file.open
    /\ ~ReaderHasNotif(ds_file)
    /\ NextFileIndex(ds_file_info_index) # Len(ds_file_infos)
    /\ ds_file_info_index' = NextFileIndex(ds_file_info_index)
    /\ LET idx == NextFileIndex(ds_file_info_index)
           fresh == ctf_fs_ds_file_create(idx)
       IN  IF ~(idx < Len(ds_file_infos))
           THEN \* assert(index < len) in notif_iter_data_set_current_ds_file()
                \* stops the program, or, compiled out (NDEBUG), the array
                \* of file infos is read past its end
                /\ \/ /\ iter_state' = "aborted"
                      /\ next_status' = "ABORT"
                   \/ /\ iter_state' = "undefined"
                      /\ next_status' = "UNDEFINED"
                /\ reader_status' = "END"
                /\ UNCHANGED <<ds_file, emitted, faulted>>
           ELSE \/ \* the next file cannot be opened
                   /\ ds_file' = NoDsFile
                   /\ reader_status' = "END"
                   /\ next_status' = "ERROR"
                   /\ faulted' = TRUE
                   /\ UNCHANGED <<iter_state, emitted>>
                \/ \* the fresh reader yields its first notification
                   /\ ReaderHasNotif(fresh)
                   /\ emitted' = Append(emitted, Notif(fresh.idx, fresh.pos))
                   /\ ds_file' = [fresh EXCEPT !.pos = @ + 1]
                   /\ reader_status' = "OK"
                   /\ next_status' = next_ret_status("OK")
                   /\ UNCHANGED <<iter_state, faulted>>
                \/ \* the fresh reader reports another status
                   /\ ds_file' = fresh
                   /\ \E st \in OtherStatuses :
                        /\ reader_status' = st
                        /\ next_status' = next_ret_status(st)
                   /\ faulted' = TRUE
                   /\ UNCHANGED <<iter_state, emitted>>
    /\ UNCHANGED <<ds_file_infos, user_data, destroy_count>>
    /\ UNCHANGED <<groupVars, sinkVars, discVars,
                   queryVars>>

\* next(): the current reader is at END, the next file of the group is opened
\* and its reader is at END at once: assert(next_ret.status != END) stops the
\* program, or, compiled out (NDEBUG), next() returns that END
NextFreshFileEnd ==
    /\ iter_state = "ready"
    /\ ds_file.open
    /\ ~ReaderHasNotif(ds_file)
    /\ NextFileIndex(ds_file_info_index) < Len(ds_file_infos)
    /\ ~ReaderHasNotif(ctf_fs_ds_file_create(NextFileIndex(ds_file_info_index)))
    /\ ds_file_info_index' = NextFileIndex(ds_file_info_index)
    /\ ds_file' = ctf_fs_ds_file_create(NextFileIndex(ds_file_info_index))
    /\ reader_status' = "END"
    /\ \/ /\ iter_state' = "aborted"
          /\ next_status' = "ABORT"
       \/ /\ next_status' = next_ret_status("END")
          /\ UNCHANGED iter_state
    /\ UNCHANGED <<ds_file_infos, emitted, faulted, user_data, destroy_count>>
    /\ UNCHANGED <<groupVars, sinkVars, discVars,
                   queryVars>>

ctf_fs_iterator_next ==
    \/ NextNoReader
    \/ NextNotification
    \/ NextReaderStatus
    \/ NextEndOfGroup
    \/ NextSwitchFile
    \/ NextFreshFileEnd

\* ctf_fs_iterator_finalize(): the user data is fetched and handed to
\* ctf_fs_notif_iter_data_destroy(), which frees the reader and the data unless
\* the pointer is NULL; the iterator's user data pointer is left as it was.
\* Freeing the same data again is undefined: the allocator stops the program,
\* or the second free goes through.
ctf_fs_iterator_finalize ==
    /\ iter_state \in {"ready", "failed", "finalized"}
    /\ IF ~user_data
       THEN \* ctf_fs_notif_iter_data_destroy(NULL) returns at once
            /\ iter_state' = "finalized"
            /\ UNCHANGED <<ds_file_infos, ds_file_info_index, ds_file,
                           next_status, emitted, faulted, reader_status,
                           destroy_count>>
       ELSE /\ destroy_count < MaxDestroys
            /\ \/ /\ iter_state' = "finalized"
                  /\ destroy_count' = destroy_count + 1
               \/ /\ destroy_count >= 1
                  /\ iter_state' = "crashed"
                  /\ UNCHANGED destroy_count
            \* the reader is destroyed and the data freed: nothing of it is left
            /\ ds_file' = NoDsFile
            /\ ds_file_info_index' = 0
            /\ ds_file_infos' = << >>
            /\ next_status' = "NONE"
            /\ reader_status' = "NONE"
            /\ emitted' = << >>
            /\ UNCHANGED faulted
    /\ UNCHANGED user_data
    /\ UNCHANGED <<groupVars, sinkVars, discVars,
                   queryVars>>

IterStep ==
    \/ ctf_fs_iterator_init
    \/ ctf_fs_iterator_next
    \/ ctf_fs_iterator_finalize

(***************************************************************************)
(* Part 2 - building a trace: stream file groups and ports                 *)
(***************************************************************************)
\* most stream files of one trace directory
MaxDsFiles == 3
\* how many stream classes the metadata may declare
StreamClassCounts == {0, 1, 2}

\* (uint64_t) -1: no stream instance id / no beginning timestamp
U64None == -1
\* bt_ctf_field_structure_get_field_by_name() found no such field
NoField == -10
\* bt_ctf_field_unsigned_integer_get_value() failed on the field
BadField == -11
\* a NULL stream class
NoClass == 0

\* values the first packet's fields take in the model
StreamIdValues == {1, 2, 3}
InstanceIdValues == {7, 8}
BeginNsValues == {100, 200}

\* the first packet's header as decoded: absent, or its two fields
PacketHeaders ==
    {[present |-> FALSE, stream_id |-> NoField, stream_instance_id |-> NoField]}
    \cup [present : {TRUE},
          stream_id : {NoField, BadField} \cup StreamIdValues,
          stream_instance_id : {NoField} \cup InstanceIdValues]

\* the first packet's context as decoded: its timestamp_begin in ns, or no field
PacketContexts == [timestamp_begin : {NoField} \cup BeginNsValues]

get_packet_header_stream_instance_id(h) ==
    IF ~h.present THEN U64None
    ELSE IF h.stream_instance_id = NoField THEN U64None
    ELSE IF h.stream_instance_id = BadField THEN U64None
    ELSE h.stream_instance_id

\* "single_stream_class:" - class at index 0, or NULL when the trace has none
SingleStreamClass(count) == IF count = 0 THEN NoClass ELSE 1

stream_class_from_packet_header(h, count) ==
    IF ~h.present THEN SingleStreamClass(count)
    ELSE IF h.stream_id = NoField THEN NoClass
    ELSE IF h.stream_id = BadField THEN SingleStreamClass(count)
    ELSE IF h.stream_id \in 1..count THEN h.stream_id   \* ..._get_stream_class_by_id()
    ELSE NoClass

get_packet_context_timestamp_begin_ns(c) ==
    IF c.timestamp_begin = NoField THEN U64None ELSE c.timestamp_begin

\* faulty variant: the header's instance id is kept without a timestamp
EffectiveInstanceId_Keep(stream_instance_id, begin_ns) == stream_instance_id
\* "if (begin_ns == -1ULL) stream_instance_id = -1ULL"
EffectiveInstanceId(stream_instance_id, begin_ns) ==
    IF begin_ns = U64None THEN U64None ELSE stream_instance_id

\* ctf_fs_ds_file_info_create(); insp_class and insp_id record what the
\* inspection of the file gave (they are not fields of the C structure)
ctf_fs_ds_file_info_create(path, begin_ns, sc, inst) ==
    [path |-> path, begin_ns |-> begin_ns, insp_class |-> sc, insp_id |-> inst]

\* ctf_fs_ds_file_group_create(): a group bound to a new stream of the class,
\* created with the instance id or, for -1ULL, without one
ctf_fs_ds_file_group_create(sc, stream_instance_id) ==
    [class |-> sc, id |-> stream_instance_id, infos |-> << >>, live |-> TRUE]

\* ctf_fs_ds_file_group_destroy(): the file infos and the group are freed
ctf_fs_ds_file_group_destroy(g) == [g EXCEPT !.infos = << >>, !.live = FALSE]

\* bt_ctf_stream_get_id() of a group's stream: -1 when created without id
bt_ctf_stream_get_id(g) == g.id

InsertAt(s, i, x) == SubSeq(s, 1, i - 1) \o <<x>> \o SubSeq(s, i, Len(s))

MinOf(S) == CHOOSE x \in S : \A y \in S : x <= y

\* faulty variant: also stops at an entry that begins at the same time
FindSpot_Ties(infos, begin_ns) ==
    LET later == {i \in 1..Len(infos) : begin_ns <= infos[i].begin_ns}
    IN  IF later = {} THEN Len(infos) + 1 ELSE MinOf(later)
\* "Find a spot to insert this one": the first entry that begins later, else append
FindSpot(infos, begin_ns) ==
    LET later == {i \in 1..Len(infos) : begin_ns < infos[i].begin_ns}
    IN  IF later = {} THEN Len(infos) + 1 ELSE MinOf(later)

ctf_fs_ds_file_group_add_ds_file_info(g, info) ==
    [g EXCEPT !.infos = InsertAt(@, FindSpot(@, info.begin_ns), info)]

\* faulty variant: the stream class is not compared
FindGroup_IdOnly(groups, sc, stream_instance_id) ==
    LET hits == {i \in 1..Len(groups) :
                    bt_ctf_stream_get_id(groups[i]) = stream_instance_id}
    IN  IF hits = {} THEN 0 ELSE MinOf(hits)
\* faulty variant: the search finds nothing
FindGroup_Never(groups, sc, stream_instance_id) == 0
\* "Find an existing stream file group with this ID": its index, or 0
FindGroup(groups, sc, stream_instance_id) ==
    LET hits == {i \in 1..Len(groups) :
                    /\ groups[i].class = sc
                    /\ bt_ctf_stream_get_id(groups[i]) = stream_instance_id}
    IN  IF hits = {} THEN 0 ELSE MinOf(hits)

InitGroup ==
    /\ trace_pc = "metadata"
    /\ stream_class_count = 0
    /\ ds_file_groups = << >>
    /\ n_files = 0
    /\ port_data = << >>
    /\ is_static = FALSE
    /\ n_ignored = 0
    /\ last_entry = "none"
    /\ last_header = "none"
    /\ last_class = NoClass

\* faulty variant: the trace is made static as soon as its metadata is parsed
ctf_fs_metadata_set_trace_Static ==
    /\ trace_pc = "metadata"
    /\ \/ /\ \E n \in StreamClassCounts : stream_class_count' = n
          /\ trace_pc' = "groups"
          /\ is_static' = TRUE
       \/ /\ trace_pc' = "error"
          /\ UNCHANGED <<stream_class_count, is_static>>
    /\ UNCHANGED <<ds_file_groups, n_files, port_data, n_ignored,
                   last_entry, last_header, last_class>>
    /\ UNCHANGED <<iterVars, sinkVars, discVars,
                   queryVars>>
\* ctf_fs_metadata_set_trace(): the metadata is parsed, or the trace is given up
ctf_fs_metadata_set_trace ==
    /\ trace_pc = "metadata"
    /\ \/ /\ \E n \in StreamClassCounts : stream_class_count' = n
          /\ trace_pc' = "groups"
       \/ /\ trace_pc' = "error"
          /\ UNCHANGED stream_class_count
    /\ UNCHANGED <<ds_file_groups, n_files, port_data, is_static, n_ignored,
                   last_entry, last_header, last_class>>
    /\ UNCHANGED <<iterVars, sinkVars, discVars,
                   queryVars>>

\* add_ds_file_to_ds_file_group() failed: create_ds_file_groups() gives up
AddFailed(groups) ==
    /\ ds_file_groups' = groups
    /\ trace_pc' = "error"

AddDone(groups) ==
    /\ ds_file_groups' = groups
    /\ trace_pc' = "groups"

\* the faults one call may meet: the header/context fields cannot be read,
\* the group's stream cannot be created, the file info cannot be allocated
AddFaults == {"none", "fields", "group", "info"}

\* what an entry of the trace's directory can be:
\*   "metadata"   the file named metadata
\*   "hidden"     an entry whose name starts with '.'
\*   "nonregular" an entry with another name that is not a regular file
\*   "unreadable" a regular file with another name that cannot be opened
\*   "empty"      such a file that opens and has size 0
\*   "stream"     such a file that opens and has a size above 0
DirEntryKinds ==
    {"metadata", "hidden", "nonregular", "unreadable", "empty", "stream"}

\* faulty variant: the size of the file is not looked at
DirEntryVerdict_AnySize(kind) ==
    CASE kind \in {"metadata", "hidden", "nonregular"} -> "ignore"
      [] kind = "unreadable" -> "error"
      [] OTHER -> "add"
\* the body of the loop of create_ds_file_groups() up to the call of
\* add_ds_file_to_ds_file_group(): its tests, in their order
DirEntryVerdict(kind) ==
    IF kind = "metadata" THEN "ignore"
    ELSE IF kind = "hidden" THEN "ignore"
    ELSE IF kind = "nonregular" THEN "ignore"
    ELSE IF kind = "unreadable" THEN "error"
    ELSE IF kind = "empty" THEN "ignore"
    ELSE "add"

\* the loop of create_ds_file_groups() comes to an entry it does not hand to
\* add_ds_file_to_ds_file_group(): the entry is passed over, or, when the
\* file cannot be opened, create_ds_file_groups() gives up
IgnoreDirEntry ==
    /\ trace_pc = "groups"
    /\ n_files + n_ignored < MaxDsFiles
    /\ \E kind \in DirEntryKinds :
          /\ DirEntryVerdict(kind) # "add"
          /\ last_entry' = kind
          /\ IF DirEntryVerdict(kind) = "error"
             THEN trace_pc' = "error" /\ UNCHANGED n_ignored
             ELSE n_ignored' = n_ignored + 1 /\ UNCHANGED trace_pc
    /\ UNCHANGED <<stream_class_count, ds_file_groups, n_files, port_data,
                   is_static, last_header, last_class>>
    /\ UNCHANGED <<iterVars, sinkVars, discVars,
                   queryVars>>

\* whether the first packet has a header, and the header a field stream_id
HeaderKind(h) ==
    IF ~h.present THEN "absent"
    ELSE IF h.stream_id = NoField THEN "no_stream_id"
    ELSE "stream_id"

\* add_ds_file_to_ds_file_group() for the next stream file of the directory
add_ds_file_to_ds_file_group ==
    /\ trace_pc = "groups"
    /\ n_files + n_ignored < MaxDsFiles
    /\ n_files' = n_files + 1
    /\ \E kind \in DirEntryKinds :
          DirEntryVerdict(kind) = "add" /\ last_entry' = kind
    /\ \E h \in PacketHeaders, c \in PacketContexts, fault \in AddFaults :
        /\ last_header' = HeaderKind(h)
        /\ last_class' = stream_class_from_packet_header(h, stream_class_count)
        /\ LET path == n_files + 1
               inst0 == get_packet_header_stream_instance_id(h)
               begin_ns == get_packet_context_timestamp_begin_ns(c)
               sc == stream_class_from_packet_header(h, stream_class_count)
               inst == EffectiveInstanceId(inst0, begin_ns)
               info == ctf_fs_ds_file_info_create(path, begin_ns, sc, inst0)
               fresh == ctf_fs_ds_file_group_create(sc, inst)
               found == FindGroup(ds_file_groups, sc, inst)
           IN  IF fault = "fields" \/ sc = NoClass
               THEN AddFailed(ds_file_groups)
               ELSE IF inst = U64None
               THEN \* a group of its own
                    IF fault \in {"group", "info"}
                    THEN AddFailed(ds_file_groups)
                    ELSE AddDone(Append(ds_file_groups,
                           ctf_fs_ds_file_group_add_ds_file_info(fresh, info)))
               ELSE IF found = 0
               THEN \* no group with this class and id yet
                    IF fault = "group"
                    THEN AddFailed(ds_file_groups)
                    ELSE IF fault = "info"
                    THEN \* destroyed at "error:", then added at "end:"
                         AddFailed(Append(ds_file_groups,
                           ctf_fs_ds_file_group_destroy(fresh)))
                    ELSE AddDone(Append(ds_file_groups,
                           ctf_fs_ds_file_group_add_ds_file_info(fresh, info)))
               ELSE \* the group exists
                    IF fault = "info"
                    THEN \* destroyed at "error:" while still in the list
                         AddFailed([ds_file_groups EXCEPT
                           ![found] = ctf_fs_ds_file_group_destroy(@)])
                    ELSE AddDone([ds_file_groups EXCEPT
                           ![found] = ctf_fs_ds_file_group_add_ds_file_info(@, info)])
    /\ UNCHANGED <<stream_class_count, port_data, is_static, n_ignored>>
    /\ UNCHANGED <<iterVars, sinkVars, discVars,
                   queryVars>>

\* faulty variant: the port is named after the group's last file
create_one_port_for_trace_Last(i) ==
    [name |-> ds_file_groups[i].infos[Len(ds_file_groups[i].infos)].path,
     ds_file_group |-> i]
\* create_one_port_for_trace(): the port is named after the group's first file
create_one_port_for_trace(i) ==
    [name |-> ds_file_groups[i].infos[1].path, ds_file_group |-> i]

\* the directory is read to its end; then create_cc_prio_map(),
\* create_ports_for_trace() and bt_ctf_trace_set_is_static()
FinishTrace ==
    /\ trace_pc = "groups"
    /\ \/ \* every port is created
          /\ port_data' = [i \in 1..Len(ds_file_groups) |-> create_one_port_for_trace(i)]
          /\ is_static' = TRUE
          /\ trace_pc' = "done"
       \/ \* the priority map cannot be built (k = 0) or port k + 1 cannot be added
          /\ \E k \in 0..Len(ds_file_groups) :
                port_data' = [i \in 1..k |-> create_one_port_for_trace(i)]
          /\ trace_pc' = "error"
          /\ UNCHANGED is_static
    /\ UNCHANGED <<stream_class_count, ds_file_groups, n_files, n_ignored,
                   last_entry, last_header, last_class>>
    /\ UNCHANGED <<iterVars, sinkVars, discVars,
                   queryVars>>

ctf_fs_trace_create ==
    \/ ctf_fs_metadata_set_trace
    \/ IgnoreDirEntry
    \/ add_ds_file_to_ds_file_group
    \/ FinishTrace

(***************************************************************************)
(* Part 3 - the sink: mirroring traces, stream classes, streams, events    *)
(***************************************************************************)
\* most notifications handed to the sink
MaxNotifs == 4

\* the input objects the notifications refer to, by identity
InTraces == {1, 2}
InStreamClasses == {1, 2, 3}
InStreams == {1, 2, 3, 4}
\* ids of the event classes of an input stream class
EventClassIds == {1, 2}

\* bt_ctf_stream_class_get_trace() of an input stream class
TraceOf(sc) == IF sc = 3 THEN 2 ELSE 1
\* bt_ctf_stream_get_class() of an input stream
ClassOf(s) == CASE s = 1 -> 1 [] s = 2 -> 1 [] s = 3 -> 2 [] OTHER -> 3

\* a NULL writer, output stream class or output stream
NoHandle == 0

RECURSIVE Digits(_)
\* the decimal digits of n >= 0
Digits(n) == IF n < 10 THEN <<n>> ELSE Digits(n \div 10) \o <<n % 10>>

RECURSIVE ZeroPad3(_)
ZeroPad3(d) == IF Len(d) >= 3 THEN d ELSE ZeroPad3(<<0>> \o d)

\* the "_%03d" of snprintf("%s/%s_%03d", base_path, trace_name_base, trace_id)
TraceDirName(id) == ZeroPad3(Digits(id))

\* the sink's state as one value, threaded through the calls of a handler
SinkState ==
    [trace_map |-> trace_map, stream_class_map |-> stream_class_map,
     stream_map |-> stream_map, trace_id |-> trace_id, writers |-> writers,
     out_classes |-> out_classes, out_streams |-> out_streams]

\* the component as created: empty maps, directory counter at 0
InitSink ==
    /\ trace_map = [t \in InTraces |-> NoHandle]
    /\ stream_class_map = [sc \in InStreamClasses |-> NoHandle]
    /\ stream_map = [s \in InStreams |-> NoHandle]
    /\ trace_id = 0
    /\ writers = << >>
    /\ out_classes = << >>
    /\ out_streams = << >>
    /\ sink_ret = "NONE"
    /\ n_notifs = 0
    /\ sink_notif = [kind |-> "NONE", stream |-> 0]
    /\ packet_state = [s \in InStreams |-> "Uninit"]

\* faulty variant: the lookup finds nothing
lookup_stream_Miss(st, s) == NoHandle
\* faulty variant: the lookup takes the first output stream, whatever the key
lookup_stream_First(st, s) == IF st.out_streams = << >> THEN NoHandle ELSE 1
\* g_hash_table_lookup(writer_component->stream_map, stream)
lookup_stream(st, s) == st.stream_map[s]

\* g_hash_table_lookup(writer_component->stream_class_map, stream_class)
lookup_stream_class(st, sc) == st.stream_class_map[sc]

\* faulty variant: the lookup finds nothing
lookup_writer_Miss(st, t) == NoHandle
\* g_hash_table_lookup(writer_component->trace_map, trace)
lookup_writer(st, t) == st.trace_map[t]

\* faulty variant: the counter stays
NextTraceId_Same(id) == id
\* writer_component->trace_id++
NextTraceId(id) == id + 1

\* insert_new_writer(): the directory name takes the counter, which moves on;
\* the writer is created, the input trace copied, the writer put in trace_map
insert_new_writer(st, trace, fault) ==
    LET call(fate) == [id |-> st.trace_id, dir |-> TraceDirName(st.trace_id),
                       trace |-> trace, fate |-> fate]
        st1 == [st EXCEPT !.trace_id = NextTraceId(@)]
        w == Len(st.writers) + 1
    IN  IF fault = "writer_create"
        THEN \* bt_ctf_writer_create() returned NULL
             [st |-> [st1 EXCEPT !.writers = Append(@, call("failed"))],
              ret |-> NoHandle]
        ELSE IF fault = "copy_trace"
        THEN \* ctf_copy_trace() failed: the writer is released
             [st |-> [st1 EXCEPT !.writers = Append(@, call("dropped"))],
              ret |-> NoHandle]
        ELSE [st |-> [st1 EXCEPT !.writers = Append(@, call("kept")),
                                 !.trace_map[trace] = w],
              ret |-> w]

\* get_writer(): the writer of the stream class's trace, created when missing
get_writer(st, sc, fault) ==
    LET w == lookup_writer(st, TraceOf(sc))
    IN  IF w # NoHandle THEN [st |-> st, ret |-> w]
        ELSE insert_new_writer(st, TraceOf(sc), fault)

\* insert_new_stream_class(): clock classes and the stream class are copied
\* into the writer's trace, the copy is put in stream_class_map
insert_new_stream_class(st, w, sc, fault) ==
    IF fault \in {"copy_clock_classes", "copy_stream_class"}
    THEN [st |-> st, ret |-> NoHandle]
    ELSE [st |-> [st EXCEPT
                    !.out_classes = Append(@, [from |-> sc, writer |-> w,
                                               event_classes |-> << >>]),
                    !.stream_class_map[sc] = Len(st.out_classes) + 1],
          ret |-> Len(st.out_classes) + 1]

\* insert_new_stream(): the output class is looked up or created, the output
\* stream is created in the writer and put in stream_map
insert_new_stream(st, w, sc, s, fault) ==
    LET oc == lookup_stream_class(st, sc)
        r == IF oc # NoHandle THEN [st |-> st, ret |-> oc]
             ELSE insert_new_stream_class(st, w, sc, fault)
    IN  IF r.ret = NoHandle \/ fault = "create_stream"
        THEN [st |-> r.st, ret |-> NoHandle]
        ELSE [st |-> [r.st EXCEPT
                        !.out_streams = Append(@, [from |-> s, class |-> r.ret,
                                                   writer |-> w, events |-> 0,
                                                   packets |-> 0, contexts |-> 0]),
                        !.stream_map[s] = Len(r.st.out_streams) + 1],
              ret |-> Len(r.st.out_streams) + 1]

\* get_writer_stream(): the writer first, then the output stream of the stream
get_writer_stream(st, s, fault) ==
    LET rw == get_writer(st, ClassOf(s), fault)
        os == lookup_stream(rw.st, s)
    IN  IF rw.ret = NoHandle THEN [st |-> rw.st, ret |-> NoHandle]
        ELSE IF os # NoHandle THEN [st |-> rw.st, ret |-> os]
        ELSE insert_new_stream(rw.st, rw.ret, ClassOf(s), s, fault)

\* faulty variant: the lookup finds nothing
get_event_class_Miss(event_classes, id) == 0
\* bt_ctf_stream_class_get_event_class_by_id(): the position of the event class
\* with this id in the output stream class, or 0
get_event_class(event_classes, id) ==
    LET hits == {i \in 1..Len(event_classes) : event_classes[i] = id}
    IN  IF hits = {} THEN 0 ELSE MinOf(hits)

\* the handler returns: the state it leaves and its status
SinkReturn(st, status) ==
    /\ trace_map' = st.trace_map
    /\ stream_class_map' = st.stream_class_map
    /\ stream_map' = st.stream_map
    /\ trace_id' = st.trace_id
    /\ writers' = st.writers
    /\ out_classes' = st.out_classes
    /\ out_streams' = st.out_streams
    /\ sink_ret' = status
    /\ n_notifs' = n_notifs + 1

\* the notification handed to the sink is noted, and the stream's packet state
\* follows the notifications the handler accepted (returned OK for)
Handed(kind, s, accepted) ==
    /\ sink_notif' = [kind |-> kind, stream |-> s]
    /\ packet_state' =
          IF ~accepted \/ kind = "E" THEN packet_state
          ELSE [packet_state EXCEPT
                  ![s] = IF kind = "PB" THEN "PacketOpen" ELSE "PacketClosed"]

\* what may go wrong in one writer_new_packet() call
PacketBeginFaults ==
    {"none", "no_stream", "writer_create", "copy_trace", "copy_clock_classes",
     "copy_stream_class", "create_stream", "packet_context"}

\* writer_new_packet(): a packet-begin notification for input stream s
writer_new_packet ==
    /\ n_notifs < MaxNotifs
    /\ \E s \in InStreams, fault \in PacketBeginFaults :
        LET r == get_writer_stream(SinkState, s, fault)
        IN  IF fault = "no_stream"
            THEN SinkReturn(SinkState, "ERROR") /\ Handed("PB", s, FALSE)
            ELSE IF r.ret = NoHandle \/ fault = "packet_context"
            THEN SinkReturn(r.st, "ERROR") /\ Handed("PB", s, FALSE)
            ELSE /\ SinkReturn([r.st EXCEPT !.out_streams[r.ret].contexts = @ + 1],
                               "OK")
                 /\ Handed("PB", s, TRUE)
    /\ UNCHANGED <<iterVars, groupVars, discVars,
                   queryVars>>

\* what may go wrong in one writer_close_packet() call
PacketEndFaults == {"none", "no_stream", "flush"}

\* writer_close_packet(): a packet-end notification for input stream s
writer_close_packet ==
    /\ n_notifs < MaxNotifs
    /\ \E s \in InStreams, fault \in PacketEndFaults :
        LET os == lookup_stream(SinkState, s)
        IN  IF fault = "no_stream" \/ os = NoHandle \/ fault = "flush"
            THEN SinkReturn(SinkState, "ERROR") /\ Handed("PE", s, FALSE)
            ELSE /\ SinkReturn([SinkState EXCEPT
                                  !.out_streams[os].packets = @ + 1,
                                  !.out_streams[os].events = 0],
                               "OK")
                 /\ Handed("PE", s, TRUE)
    /\ UNCHANGED <<iterVars, groupVars, discVars,
                   queryVars>>

\* what may go wrong in one writer_output_event() call
EventFaults ==
    {"none", "no_event_class", "copy_event_class", "add_event_class",
     "copy_event", "append_event"}

\* writer_output_event(): an event of event class ec (of the stream's class)
\* for input stream s
writer_output_event ==
    /\ n_notifs < MaxNotifs
    /\ \E s \in InStreams, ec \in EventClassIds, fault \in EventFaults :
        LET os == lookup_stream(SinkState, s)
            oc == lookup_stream_class(SinkState, ClassOf(s))
            known == get_event_class(out_classes[oc].event_classes, ec) # 0
            added == IF known THEN SinkState
                     ELSE [SinkState EXCEPT
                             !.out_classes[oc].event_classes = Append(@, ec)]
        IN  IF fault = "no_event_class" \/ os = NoHandle \/ oc = NoHandle
            THEN SinkReturn(SinkState, "ERROR") /\ Handed("E", s, FALSE)
            ELSE IF ~known /\ fault \in {"copy_event_class", "add_event_class"}
            THEN SinkReturn(SinkState, "ERROR") /\ Handed("E", s, FALSE)
            ELSE IF fault \in {"copy_event", "append_event"}
            THEN SinkReturn(added, "ERROR") /\ Handed("E", s, FALSE)
            ELSE /\ SinkReturn([added EXCEPT !.out_streams[os].events = @ + 1],
                               "OK")
                 /\ Handed("E", s, TRUE)
    /\ UNCHANGED <<iterVars, groupVars, discVars,
                   queryVars>>

SinkStep == writer_new_packet \/ writer_output_event \/ writer_close_packet

(***************************************************************************)
(* Part 4 - looking for trace directories below the path parameter         *)
(***************************************************************************)
\* most paths of the directory tree; path 1 is the path parameter, the entries
\* of directory n are the paths 2n and 2n+1 that exist
MaxNodes == 6

FsNodes == 1..MaxNodes

\* what a path can be:
\*   "file"    not a directory (a regular file, or nothing at all)
\*   "dir"     a directory without a regular file "metadata", which opens
\*   "trace"   a directory with a regular file "metadata"
\*   "trace_x" such a directory for which realpath() fails
\*   "denied"  a directory without visible "metadata", g_dir_open() fails
\*             with G_FILE_ERROR_ACCES
\*   "broken"  a directory without "metadata", g_dir_open() fails otherwise
NodeKinds == {"file", "dir", "trace", "trace_x", "denied", "broken"}

\* the file system as the search sees it
FileSystem ==
    [tree |-> fs_tree, slash |-> root_is_slash, order |-> dir_order,
     link |-> fs_link]

\* the directory that lists path n
Parent(n) == n \div 2

\* the paths that can be a symbolic link in this tree: an entry that leads to
\* the trace directory listed next to it in the same directory, and so is
\* seen as a trace directory itself
LinkChoices(tree) ==
    {0} \cup {n \in FsNodes : /\ n > 1 /\ n % 2 = 1
                              /\ tree[n] = "trace" /\ tree[n - 1] = "trace"}

\* the path a path leads to once symbolic links are followed
LinkTarget(fs, n) == IF n # 0 /\ fs.link = n THEN n - 1 ELSE n

\* the name of entry n in its directory; two entries of one directory have
\* different names
Basename(n) ==
    CASE n % 4 = 0 -> <<"a">>
      [] n % 4 = 3 -> <<"a", "c">>
      [] OTHER -> <<"a", "b">>

RECURSIVE PathOf(_, _)
\* the canonical absolute path of path n, as a string of characters: the
\* path parameter resolves to "/" or to "/r"
PathOf(fs, n) ==
    IF n = 1 THEN (IF fs.slash THEN <<"/">> ELSE <<"/", "r">>)
    ELSE (IF Parent(n) = 1 /\ fs.slash THEN << >> ELSE PathOf(fs, Parent(n)))
         \o <<"/">> \o Basename(n)

\* realpath(): the canonical path of what path n leads to
realpath(fs, n) == PathOf(fs, LinkTarget(fs, n))

\* what find_ctf_traces() hands back: its return value and the list
FindResult(ret, paths) == [ret |-> ret, trace_paths |-> paths]

\* path_is_ctf_trace(): g_file_test("<path>/metadata", G_FILE_TEST_IS_REGULAR)
path_is_ctf_trace(fs, n) == fs.tree[n] \in {"trace", "trace_x"}

\* g_file_test(path, G_FILE_TEST_IS_DIR)
is_dir(fs, n) == fs.tree[n] # "file"

\* faulty variant: a permission error is an error like any other
g_dir_open_Strict(fs, n) == IF fs.tree[n] = "dir" THEN "ok" ELSE "error"
\* g_dir_open(): "ok", "acces" (G_FILE_ERROR_ACCES) or "error"
g_dir_open(fs, n) ==
    CASE fs.tree[n] = "denied" -> "acces"
      [] fs.tree[n] = "broken" -> "error"
      [] OTHER -> "ok"

\* the names g_dir_read_name() hands out for directory n, in its order
DirEntries(fs, n) ==
    LET lo == 2 * n
        hi == 2 * n + 1
        up == IF hi <= MaxNodes THEN <<lo, hi>>
              ELSE IF lo <= MaxNodes THEN <<lo>> ELSE << >>
    IN  IF fs.order = "up" \/ Len(up) < 2 THEN up ELSE <<hi, lo>>

\* add_trace_path(): realpath() must succeed and must not be "/"; the path is
\* put at the head of the list (the list holds the path whose canonical path
\* the GString holds)
add_trace_path(fs, paths, n) ==
    IF fs.tree[n] = "trace_x" THEN FindResult(-1, paths)
    ELSE IF realpath(fs, n) = <<"/">> THEN FindResult(-1, paths)
    ELSE FindResult(0, <<LinkTarget(fs, n)>> \o paths)

RECURSIVE find_ctf_traces(_, _, _)
RECURSIVE read_dir(_, _, _, _)

\* find_ctf_traces(): a trace is added and not searched; anything that is not a
\* directory ends the search of this path; a directory that cannot be opened
\* for lack of permission is passed over, any other failure to open is an
\* error; the entries of an opened directory are searched in turn
find_ctf_traces(fs, paths, start_path) ==
    IF path_is_ctf_trace(fs, start_path)
    THEN add_trace_path(fs, paths, start_path)
    ELSE IF ~is_dir(fs, start_path) THEN FindResult(0, paths)
    ELSE IF g_dir_open(fs, start_path) = "acces" THEN FindResult(0, paths)
    ELSE IF g_dir_open(fs, start_path) = "error" THEN FindResult(-1, paths)
    ELSE read_dir(fs, paths, DirEntries(fs, start_path), 1)

\* the while loop over g_dir_read_name(): it stops at the first entry whose
\* search fails
read_dir(fs, paths, entries, i) ==
    IF i > Len(entries) THEN FindResult(0, paths)
    ELSE LET r == find_ctf_traces(fs, paths, entries[i])
         IN  IF r.ret # 0 THEN r
             ELSE read_dir(fs, r.trace_paths, entries, i + 1)

\* the character of a string at offset at, "NUL" at its end
CharAt(str, at) == IF at < Len(str) THEN str[at + 1] ELSE "NUL"

RECURSIVE ScanColumn(_, _, _, _)
\* the for loop of create_trace_names() over the list at one offset: "done"
\* when a path ends there or differs from the first one, the common
\* character otherwise
ScanColumn(paths, at, i, common_ch) ==
    IF i > Len(paths) THEN common_ch
    ELSE LET this_ch == CharAt(paths[i], at)
         IN  IF this_ch = "NUL" THEN "done"
             ELSE IF common_ch = "NUL"
                  THEN ScanColumn(paths, at, i + 1, this_ch)
             ELSE IF this_ch # common_ch THEN "done"
             ELSE ScanColumn(paths, at, i + 1, common_ch)

\* faulty variant: every common character moves the cut
NextStrip_Any(common_ch, at, chars_to_strip) == at + 1
\* the cut moves behind a common slash
NextStrip(common_ch, at, chars_to_strip) ==
    IF common_ch = "/" THEN at + 1 ELSE chars_to_strip

RECURSIVE CharsToStrip(_, _, _)
\* the while loop of create_trace_names(): the number of characters to strip
CharsToStrip(paths, at, chars_to_strip) ==
    LET common_ch == ScanColumn(paths, at, 1, "NUL")
    IN  IF common_ch = "done" THEN chars_to_strip
        ELSE CharsToStrip(paths, at + 1,
                          NextStrip(common_ch, at, chars_to_strip))

\* create_trace_names(): each path without its first chars_to_strip characters
create_trace_names(paths) ==
    LET chars_to_strip == CharsToStrip(paths, 0, 0)
    IN  [i \in 1..Len(paths) |->
            SubSeq(paths[i], chars_to_strip + 1, Len(paths[i]))]

\* the canonical paths the GStrings of the list hold
PathStrings(fs, paths) == [i \in 1..Len(paths) |-> PathOf(fs, paths[i])]

\* the loop of create_ctf_fs_traces() over the paths and names: the traces
\* added to ctf_fs->traces before the first ctf_fs_trace_create() that fails
LoadedTraces(paths, names, fails) ==
    LET n == IF fails = 0 THEN Len(paths) ELSE fails - 1
    IN  [i \in 1..n |-> [path |-> paths[i], name |-> names[i]]]

\* ctf_fs_init(): an error of create_ctf_fs_traces() makes ctf_fs_create()
\* destroy the component, and the status is an error
ctf_fs_init(ret) == IF ret # 0 THEN "ERROR" ELSE "OK"

\* before the component looks at its path parameter
InitDisc ==
    /\ fs_tree = [n \in FsNodes |-> "file"]
    /\ root_is_slash = FALSE
    /\ dir_order = "up"
    /\ trace_paths = << >>
    /\ find_ret = 0
    /\ disc_pc = "start"
    /\ fs_link = 0
    /\ load_fails = 0
    /\ trace_names = << >>
    /\ traces = << >>
    /\ create_ret = 0
    /\ init_status = "NONE"

\* create_ctf_fs_traces(), called by ctf_fs_init(): the search from the path
\* parameter, where an error of the search or an empty list is an error; the
\* names of the traces; then each trace is created in the order of the list,
\* and the first one that fails to load ends the loop with an error
create_ctf_fs_traces ==
    /\ disc_pc = "start"
    /\ fs_tree' \in [FsNodes -> NodeKinds]
    /\ root_is_slash' \in BOOLEAN
    /\ dir_order' \in {"up", "down"}
    /\ fs_link' \in LinkChoices(fs_tree')
    /\ \E r \in {find_ctf_traces([tree |-> fs_tree', slash |-> root_is_slash',
                                  order |-> dir_order', link |-> fs_link'],
                                 << >>, 1)} :
           /\ find_ret' = r.ret
           /\ trace_paths' = r.trace_paths
           /\ IF r.ret # 0 \/ r.trace_paths = << >>
              THEN /\ disc_pc' = "error"
                   /\ load_fails' = 0
                   /\ trace_names' = << >>
                   /\ traces' = << >>
                   /\ create_ret' = -1
              ELSE /\ disc_pc' = "found"
                   /\ load_fails' \in 0..Len(r.trace_paths)
                   /\ \E strs \in {PathStrings([tree |-> fs_tree',
                                                 slash |-> root_is_slash',
                                                 order |-> dir_order',
                                                 link |-> fs_link'],
                                                r.trace_paths)} :
                          /\ trace_names' = create_trace_names(strs)
                          /\ traces' = LoadedTraces(strs, trace_names',
                                                    load_fails')
                   /\ create_ret' = IF load_fails' # 0 THEN -1 ELSE 0
    /\ init_status' = ctf_fs_init(create_ret')
    /\ UNCHANGED <<iterVars, groupVars, sinkVars,
                   queryVars>>

(***************************************************************************)
(* Part 5 - the metadata-info query                                        *)
(***************************************************************************)
\* most characters of a metadata text behind its first characters
MaxTail == 2

\* METADATA_TEXT_SIG
SigText == <<"/", "*", " ", "C", "T", "F", " ", "1", ".", "8">>

\* what is appended to the signature when it is put in front of a text
SigEnd == <<" ", "*", "/", "\n", "\n">>

\* a NULL result
NoResults == [ok |-> FALSE]

\* the texts a metadata file can hold: some first characters of the
\* signature, then up to MaxTail other characters
TailTexts ==
    UNION {[1..n -> {"x", "/"}] : n \in 0..MaxTail}

MetadataTexts ==
    {SubSeq(SigText, 1, n) \o tail : n \in 0..Len(SigText), tail \in TailTexts}

\* strncmp(s1, s2, n) != 0: the strings differ in one of their first n
\* characters, no later than the end of s1
strncmp_ne(s1, s2, n) ==
    \E i \in 0..n - 1 :
        /\ CharAt(s1, i) # CharAt(s2, i)
        /\ \A j \in 0..i - 1 : CharAt(s1, j) # "NUL"

\* faulty variant: the signature is put in front of every text
NeedsSignature_Always(text) == TRUE
\* the text does not start with the signature
NeedsSignature(text) == strncmp_ne(text, SigText, Len(SigText))

\* the text of the result: the signature and its end are put in front of a
\* text that does not start with the signature, then the text is appended
ResultText(text) ==
    (IF NeedsSignature(text) THEN SigText \o SigEnd ELSE << >>) \o text

\* what can go wrong in a query: the parameters are not a map with a string
\* "path", the file cannot be opened, the packetized file cannot be decoded,
\* the plain file cannot be read, the results cannot be built
QueryFaults == {"none", "params", "open", "decode", "read", "results"}

InitQuery ==
    /\ query_object = "NONE"
    /\ query_fault = "none"
    /\ is_packetized = FALSE
    /\ metadata_text = << >>
    /\ results = NoResults

\* ctf_fs_query(): only "metadata-info" is known; the file is decoded when it
\* is packetized and read raw otherwise (fread() of a file of size 0 reads
\* nothing, which is an error); the result holds the text, with the signature
\* in front when it has none, and the outcome of the packetized test
ctf_fs_query ==
    /\ query_object = "NONE"
    /\ query_object' \in {"metadata-info", "other"}
    /\ query_fault' \in QueryFaults
    /\ is_packetized' \in BOOLEAN
    /\ metadata_text' \in MetadataTexts
    /\ results' =
          IF query_object' # "metadata-info" THEN NoResults
          ELSE IF query_fault' \in {"params", "open", "results"} THEN NoResults
          ELSE IF is_packetized' /\ query_fault' = "decode" THEN NoResults
          ELSE IF ~is_packetized' /\ (query_fault' = "read" \/ metadata_text' = << >>)
               THEN NoResults
          ELSE [ok |-> TRUE, text |-> ResultText(metadata_text'),
                is_packetized |-> is_packetized']
    /\ UNCHANGED <<iterVars, groupVars, sinkVars, discVars>>

Init == InitIter /\ InitGroup /\ InitSink /\ InitDisc /\ InitQuery

NextIter == IterStep

NextGroup == ctf_fs_trace_create

NextSink == SinkStep

NextDisc == create_ctf_fs_traces

NextQuery == ctf_fs_query

Next == NextIter \/ NextGroup \/ NextSink \/ NextDisc \/ NextQuery

SpecIter == Init /\ [][NextIter]_vars

SpecGroup == Init /\ [][NextGroup]_vars

SpecSink == Init /\ [][NextSink]_vars

SpecDisc == Init /\ [][NextDisc]_vars

SpecQuery == Init /\ [][NextQuery]_vars

Spec == Init /\ [][Next]_vars

(***************************************************************************)
(* Claims about the iterator                                               *)
(***************************************************************************)
\* every reader of the group yields a non-empty sequence and then END, and no
\* reader status other than OK/END and no failed open has occurred
ReadersWellBehaved ==
    /\ ~faulted
    /\ \A i \in 1..Len(ds_file_infos) : Len(ds_file_infos[i]) > 0

\* C1 - iteration completeness and order: with well-behaved readers, what
\* next() has returned so far is always a prefix of seq(f0) ++ ... ++ seq(f(n-1));
\* when next() returns END it has returned exactly that concatenation; and the
\* iterator does not stop (abort) before it has returned END.
C1_IterationCompleteAndOrdered ==
    ReadersWellBehaved =>
        /\ IsPrefix(emitted, GroupNotifs)
        /\ (next_status = "END" => emitted = GroupNotifs)
        /\ (next_status = "OK" => Len(emitted) > 0)
        /\ (iter_state = "aborted" =>
                /\ emitted = GroupNotifs
                /\ ds_file_info_index > Len(ds_file_infos))

C1_Witness ==
    /\ ReadersWellBehaved
    /\ next_status = "END"
    /\ Len(ds_file_infos) >= 2
    /\ Len(emitted) >= 3
    /\ emitted[Len(emitted)].file = 1

RECURSIVE Scan(_, _)
\* the state of the matcher of (PB E* PE)* after the first n kinds of ks
Scan(ks, n) ==
    IF n = 0 THEN "closed"
    ELSE LET st == Scan(ks, n - 1)
         IN  CASE st = "closed" /\ ks[n] = "PB" -> "open"
               [] st = "open" /\ ks[n] = "E" -> "open"
               [] st = "open" /\ ks[n] = "PE" -> "closed"
               [] OTHER -> "bad"

\* a reader's sequence has the form (PB E* PE)+
WellFormedFile(ks) == Len(ks) > 0 /\ Scan(ks, Len(ks)) = "closed"

EmittedKinds == [i \in 1..Len(emitted) |-> emitted[i].kind]

\* C2 - packet bracketing: when every reader of the group yields (PB E* PE)+
\* and then END, what next() has returned is at every moment a prefix of a
\* sequence matching (PB E* PE)* (no event outside a packet, no packet begun
\* inside another), and when next() returns END it matches (PB E* PE)*.
C2_PacketBracketing ==
    (~faulted /\ \A i \in 1..Len(ds_file_infos) : WellFormedFile(ds_file_infos[i])) =>
        /\ Scan(EmittedKinds, Len(emitted)) # "bad"
        /\ (next_status = "END" => Scan(EmittedKinds, Len(emitted)) = "closed")
        /\ (next_status = "END" => Len(emitted) = SumTo([i \in 1..Len(ds_file_infos) |-> Len(ds_file_infos[i])], Len(ds_file_infos)))

C2_Witness ==
    /\ ~faulted
    /\ \A i \in 1..Len(ds_file_infos) : WellFormedFile(ds_file_infos[i])
    /\ Len(ds_file_infos) >= 2
    /\ next_status = "END"
    /\ \E i \in 1..Len(emitted) : emitted[i].kind = "E"
    /\ \E i \in 1..Len(emitted) : emitted[i].file = 1 /\ emitted[i].kind = "PB"

(***************************************************************************)
(* Claims about the stream file groups                                     *)
(***************************************************************************)
\* the groups of the list that have not been destroyed
LiveGroups == {i \in 1..Len(ds_file_groups) : ds_file_groups[i].live}

\* the file infos of group i, as a set of positions
InfosOf(i) == 1..Len(ds_file_groups[i].infos)

\* C3 (as stated) - every file of every group has the inspected (stream class,
\* stream instance id) pair of the group's bound stream.
C3_Original ==
    \A i \in LiveGroups : \A j \in InfosOf(i) :
        LET g == ds_file_groups[i]
        IN  /\ g.infos[j].insp_class = g.class
            /\ g.infos[j].insp_id = bt_ctf_stream_get_id(g)

\* C3 (amended) - in every group all files have the same inspected (stream
\* class, stream instance id) pair; the class is the class of the group's bound
\* stream; the id is the id of the bound stream when the file has a beginning
\* timestamp, and the bound stream has no id when the file has none (whatever
\* id the file carries).
C3_GroupingClosure ==
    \A i \in LiveGroups :
        LET g == ds_file_groups[i]
        IN  /\ \A j, k \in InfosOf(i) :
                  /\ g.infos[j].insp_class = g.infos[k].insp_class
                  /\ g.infos[j].insp_id = g.infos[k].insp_id
            /\ \A j \in InfosOf(i) :
                  /\ g.infos[j].insp_class = g.class
                  /\ g.infos[j].begin_ns # U64None =>
                        g.infos[j].insp_id = bt_ctf_stream_get_id(g)
                  /\ g.infos[j].begin_ns = U64None =>
                        bt_ctf_stream_get_id(g) = U64None

C3_Witness ==
    /\ \E i \in LiveGroups :
          /\ Len(ds_file_groups[i].infos) >= 2
          /\ ds_file_groups[i].id # U64None
    /\ \E i \in LiveGroups : \E j \in InfosOf(i) :
          /\ ds_file_groups[i].infos[j].insp_id # U64None
          /\ ds_file_groups[i].infos[j].begin_ns = U64None

\* C4 - group ordering: along the file list of every group begin_ns never
\* decreases, and of two files with equal begin_ns the one added first (the
\* smaller arrival number) comes first.
C4_GroupOrdering ==
    \A i \in LiveGroups : \A j, k \in InfosOf(i) :
        j < k =>
            LET a == ds_file_groups[i].infos[j]
                b == ds_file_groups[i].infos[k]
            IN  /\ a.begin_ns <= b.begin_ns
                /\ a.begin_ns = b.begin_ns => a.path < b.path

C4_Witness ==
    \E i \in LiveGroups :
        LET f == ds_file_groups[i].infos
        IN  /\ Len(f) = 3
            /\ f[1].begin_ns = f[2].begin_ns
            /\ f[3].path = 1
            /\ f[3].begin_ns > f[1].begin_ns

\* a file without stream instance id, or without beginning timestamp
Unkeyed(info) == info.insp_id = U64None \/ info.begin_ns = U64None

\* the places (group, position) at which the file with arrival number p sits
PlacesOf(p) ==
    {<<i, j>> \in (1..Len(ds_file_groups)) \X (1..MaxDsFiles + 1) :
        j \in InfosOf(i) /\ ds_file_groups[i].infos[j].path = p}

\* C5 - singleton groups: a file without instance id or without beginning
\* timestamp is the only file of its group in every state, and the group's
\* stream has no id; every file added sits in exactly one group; and once the
\* trace is created there is one port per group, so two such files of one
\* stream class give two groups and two ports.
C5_SingletonGroups ==
    /\ \A i \in LiveGroups : \A j \in InfosOf(i) :
          Unkeyed(ds_file_groups[i].infos[j]) =>
              /\ Len(ds_file_groups[i].infos) = 1
              /\ bt_ctf_stream_get_id(ds_file_groups[i]) = U64None
    /\ trace_pc # "error" =>
          \A p \in 1..n_files : Cardinality(PlacesOf(p)) = 1
    /\ trace_pc = "done" =>
          /\ Len(port_data) = Len(ds_file_groups)
          /\ \A i \in 1..Len(port_data) : port_data[i].ds_file_group = i

C5_Witness ==
    /\ trace_pc = "done"
    /\ Len(port_data) = 3
    /\ \E i, k \in LiveGroups :
          /\ i < k
          /\ ds_file_groups[i].class = ds_file_groups[k].class
          /\ ds_file_groups[i].infos[1].insp_id = U64None
          /\ ds_file_groups[k].infos[1].insp_id # U64None
          /\ ds_file_groups[k].infos[1].begin_ns = U64None
    /\ \E i \in LiveGroups :
          /\ ds_file_groups[i].id # U64None
          /\ ds_file_groups[i].infos[1].path = 3

\* C6 - stream uniqueness: no two distinct groups of the list whose stream has
\* an instance id have the same (stream class, stream instance id).
C6_StreamUniqueness ==
    \A i, k \in LiveGroups :
        (/\ i # k
         /\ bt_ctf_stream_get_id(ds_file_groups[i]) # U64None
         /\ bt_ctf_stream_get_id(ds_file_groups[k]) # U64None)
        => \/ ds_file_groups[i].class # ds_file_groups[k].class
           \/ bt_ctf_stream_get_id(ds_file_groups[i]) #
                bt_ctf_stream_get_id(ds_file_groups[k])

C6_Witness ==
    /\ \E i, k \in LiveGroups :
          /\ i # k
          /\ ds_file_groups[i].class = ds_file_groups[k].class
          /\ ds_file_groups[i].id # U64None
          /\ ds_file_groups[k].id # U64None
    /\ \E i \in LiveGroups : Len(ds_file_groups[i].infos) = 2


(***************************************************************************)
(* Claims about the sink (SpecSink)                                        *)
(***************************************************************************)
\* the output stream classes created for input stream class sc
ClassesFrom(sc) == {h \in 1..Len(out_classes) : out_classes[h].from = sc}

\* the output streams created for input stream s
StreamsFrom(s) == {h \in 1..Len(out_streams) : out_streams[h].from = s}

\* the writers created and kept for input trace t
WritersFor(t) ==
    {w \in 1..Len(writers) : writers[w].fate = "kept" /\ writers[w].trace = t}

\* C7 - Mirror idempotence (stream classes and streams): over any sequence of
\* packet-begin, event and packet-end notifications, failing ones included,
\* the sink creates at most one output stream class per input stream class
\* and at most one output stream per input stream, and an entry of
\* stream_class_map or stream_map, once set, is never replaced.
C7_MirrorIdempotence ==
    /\ [](/\ \A sc \in InStreamClasses : Cardinality(ClassesFrom(sc)) <= 1
          /\ \A s \in InStreams : Cardinality(StreamsFrom(s)) <= 1)
    /\ [][/\ \A sc \in InStreamClasses :
                stream_class_map[sc] # NoHandle
                    => stream_class_map'[sc] = stream_class_map[sc]
          /\ \A s \in InStreams :
                stream_map[s] # NoHandle => stream_map'[s] = stream_map[s]]_vars

\* a notification has just failed, after a stream had a second packet-begin
\* and another input stream of the same class got its output stream
C7_Witness ==
    /\ sink_ret = "ERROR"
    /\ \E s1, s2 \in InStreams :
        /\ s1 # s2
        /\ stream_map[s1] # NoHandle /\ stream_map[s2] # NoHandle
        /\ out_streams[stream_map[s1]].class = out_streams[stream_map[s2]].class
        /\ out_streams[stream_map[s1]].contexts >= 2

\* C8 - Mirror idempotence (event classes): an output stream class never holds
\* two event classes with the same id; an event notification adds an event
\* class to an output stream class only when that class has none with the
\* event's id, and adds nothing otherwise.
C8_EventClassIdempotence ==
    /\ [](\A h \in 1..Len(out_classes) :
            \A i, j \in 1..Len(out_classes[h].event_classes) :
                out_classes[h].event_classes[i] = out_classes[h].event_classes[j]
                    => i = j)
    /\ [][\A h \in 1..Len(out_classes) :
            LET old == out_classes[h].event_classes
                new == out_classes'[h].event_classes
            IN  /\ IsPrefix(old, new)
                /\ Len(new) <= Len(old) + 1
                /\ Len(new) = Len(old) + 1
                    => get_event_class(old, new[Len(new)]) = 0]_vars

\* a stream has more pending events than its output class has event classes:
\* an event found its event class already there
C8_Witness ==
    \E h \in 1..Len(out_streams) :
        /\ Len(out_classes[out_streams[h].class].event_classes) >= 1
        /\ out_streams[h].events
             > Len(out_classes[out_streams[h].class].event_classes)

\* the input trace of the input stream an output stream was created for
InTraceOfOut(h) == TraceOf(ClassOf(out_streams[h].from))

\* C9 - Writer per input trace: at most one writer is kept per input trace and
\* a trace_map entry is never replaced; every output stream lives in the
\* writer trace_map holds for its input trace, so streams of one input trace
\* share a writer and streams of different input traces have different ones.
C9_WriterPerInputTrace ==
    /\ [](/\ \A t \in InTraces : Cardinality(WritersFor(t)) <= 1
          /\ \A t \in InTraces :
                trace_map[t] # NoHandle => WritersFor(t) = {trace_map[t]}
          /\ \A h \in 1..Len(out_streams) :
                out_streams[h].writer = trace_map[InTraceOfOut(h)]
          /\ \A h1, h2 \in 1..Len(out_streams) :
                (InTraceOfOut(h1) = InTraceOfOut(h2))
                    <=> (out_streams[h1].writer = out_streams[h2].writer))
    /\ [][\A t \in InTraces :
            trace_map[t] # NoHandle => trace_map'[t] = trace_map[t]]_vars

\* two streams of one input trace and a stream of another one are mirrored,
\* the first two in one writer and the third in another
C9_Witness ==
    \E h1, h2, h3 \in 1..Len(out_streams) :
        /\ h1 # h2
        /\ InTraceOfOut(h1) = InTraceOfOut(h2)
        /\ InTraceOfOut(h3) # InTraceOfOut(h1)
        /\ out_streams[h1].writer = out_streams[h2].writer
        /\ out_streams[h3].writer # out_streams[h1].writer

\* C10 - Output directory numbering: the first writer creation uses number 0,
\* the numbers strictly increase in the order of the creations, and no two
\* creations use the same directory name.
C10_DirectoryNumbering ==
    /\ writers # << >> => writers[1].id = 0
    /\ \A i, j \in 1..Len(writers) :
        i < j => /\ writers[i].id < writers[j].id
                 /\ writers[i].dir # writers[j].dir
    /\ \A i \in 1..Len(writers) : writers[i].id < trace_id

\* two writers are kept and one creation has failed in between or before
C10_Witness ==
    \E i, j, k \in 1..Len(writers) :
        /\ i < j
        /\ writers[i].fate = "kept" /\ writers[j].fate = "kept"
        /\ writers[k].fate # "kept"


\* a notification of this kind was handed to the sink in this step
HandedNow(kind) == n_notifs' # n_notifs /\ sink_notif'.kind = kind

\* C11 - Event before packet-begin: writer_output_event() for an input stream
\* that has no entry in stream_map returns ERROR, appends nothing to any output
\* stream, adds no event class, and leaves trace_map, stream_class_map and
\* stream_map as they were.
C11_EventBeforePacketBegin ==
    [][(HandedNow("E") /\ stream_map[sink_notif'.stream] = NoHandle)
        => /\ sink_ret' = "ERROR"
           /\ out_streams' = out_streams
           /\ out_classes' = out_classes
           /\ UNCHANGED <<trace_map, stream_class_map, stream_map>>]_vars

\* an event was just refused for a stream without output stream, while another
\* stream of the same class has one (the class is in stream_class_map)
C11_Witness ==
    /\ sink_notif.kind = "E"
    /\ sink_ret = "ERROR"
    /\ stream_map[sink_notif.stream] = NoHandle
    /\ \E s \in InStreams :
        /\ ClassOf(s) = ClassOf(sink_notif.stream)
        /\ stream_map[s] # NoHandle

\* C12 - Packet-end without packet-begin: writer_close_packet() for an input
\* stream that has no entry in stream_map returns ERROR, flushes no output
\* stream, and leaves the three maps as they were.
C12_PacketEndBeforePacketBegin ==
    [][(HandedNow("PE") /\ stream_map[sink_notif'.stream] = NoHandle)
        => /\ sink_ret' = "ERROR"
           /\ out_streams' = out_streams
           /\ UNCHANGED <<trace_map, stream_class_map, stream_map>>]_vars

\* a packet-end was just refused for a stream without output stream, while
\* another stream's output stream holds events waiting for a flush
C12_Witness ==
    /\ sink_notif.kind = "PE"
    /\ sink_ret = "ERROR"
    /\ stream_map[sink_notif.stream] = NoHandle
    /\ \E h \in 1..Len(out_streams) : out_streams[h].events > 0

\* C13 - Sink per-stream protocol (events): an event is accepted only while
\* its stream is in state PacketOpen; otherwise (for a known stream: after its
\* packet-end and before its next packet-begin) the handler returns ERROR and
\* the event is not appended.
C13_EventRequiresPacketOpen ==
    [][(HandedNow("E") /\ packet_state[sink_notif'.stream] # "PacketOpen")
        => /\ sink_ret' = "ERROR"
           /\ out_streams' = out_streams]_vars

\* C14 - Sink per-stream protocol (packet end): a packet-end is accepted only
\* in state PacketOpen; a second packet-end with no packet-begin in between
\* returns ERROR and does not flush the output stream again.
C14_PacketEndRequiresPacketOpen ==
    [][(HandedNow("PE") /\ packet_state[sink_notif'.stream] # "PacketOpen")
        => /\ sink_ret' = "ERROR"
           /\ out_streams' = out_streams]_vars

\* C15 - Repeated packet-begin frame: a successful writer_new_packet() for an
\* input stream already in stream_map leaves the three maps, the directory
\* counter, the writers and the output stream classes as they were and creates
\* no output stream; only that output stream's packet context is set anew.
C15_RepeatedPacketBeginFrame ==
    [][(/\ HandedNow("PB")
        /\ sink_ret' = "OK"
        /\ stream_map[sink_notif'.stream] # NoHandle)
        => /\ UNCHANGED <<trace_map, stream_class_map, stream_map, trace_id,
                         writers, out_classes>>
           /\ out_streams' =
                [out_streams EXCEPT
                    ![stream_map[sink_notif'.stream]].contexts = @ + 1]]_vars

\* a packet-begin just succeeded for a stream whose output stream had its
\* packet context set before
C15_Witness ==
    /\ sink_notif.kind = "PB"
    /\ sink_ret = "OK"
    /\ stream_map[sink_notif.stream] # NoHandle
    /\ out_streams[stream_map[sink_notif.stream]].contexts >= 2


(***************************************************************************)
(* Further claims about the iterator (SpecIter)                            *)
(***************************************************************************)
\* the last next() opened the next file of the group and that file's reader
\* reported END on its first read
FreshFileAtEnd ==
    /\ iter_state \in {"ready", "aborted"}
    /\ reader_status = "END"
    /\ ds_file.open
    /\ ds_file.idx >= 1
    /\ ds_file.idx = ds_file_info_index
    /\ ds_file.pos = 0
    /\ Len(ds_file_infos[ds_file.idx + 1]) = 0

\* C16 - Fresh file yields End: when next() has moved on to a file of the group
\* and the first read of that newly opened file reports END, next() returns
\* ERROR; it neither returns END nor stops the program.
C16_FreshFileEndIsError ==
    FreshFileAtEnd => (next_status = "ERROR" /\ iter_state = "ready")

\* in this step next() got a status that is neither OK nor END from a reader
ReaderFailedNow ==
    /\ reader_status' \in OtherStatuses
    /\ NextReaderStatus \/ NextSwitchFile

\* C17 (as stated) - whenever a reader reports a status other than a
\* notification or END, next() returns that status and the call leaves the file
\* index and the open reader as they were.
C17_Original ==
    [][ReaderFailedNow
        => /\ next_status' = reader_status'
           /\ UNCHANGED <<ds_file_info_index, ds_file>>]_vars

\* C17 (amended) - whenever a reader reports a status other than a
\* notification or END, next() returns that status; when it comes from the
\* reader that was open when the call began, the file index and the reader are
\* left as they were; when it comes from the first read of the file the call
\* has just moved on to, the index is one more than before and the open reader
\* is the reader of that file, at its start.
C17_ReaderErrorPropagation ==
    [][ReaderFailedNow
        => /\ next_status' = reader_status'
           /\ iter_state' = iter_state
           /\ emitted' = emitted
           /\ NextReaderStatus => UNCHANGED <<ds_file_info_index, ds_file>>
           /\ NextSwitchFile =>
                /\ ds_file_info_index' = ds_file_info_index + 1
                /\ ds_file' = [open |-> TRUE, idx |-> ds_file_info_index + 1,
                               pos |-> 0]]_vars

\* next() has returned AGAIN, reported by the first read of the second file
C17_Witness ==
    /\ iter_state = "ready"
    /\ reader_status = "AGAIN"
    /\ next_status = "AGAIN"
    /\ ds_file.open
    /\ ds_file.idx = 1
    /\ ds_file.pos = 0
    /\ ds_file_info_index = 1
    /\ Len(emitted) >= 1

\* C18 - Iterator finalize is idempotent: finalize releases the reader and the
\* iterator data, and a second finalize releases nothing again and does not
\* stop the program.
C18_FinalizeIdempotent ==
    /\ destroy_count <= 1
    /\ iter_state # "crashed"

\* C19 - One open reader per iterator: between a successful init and finalize,
\* after any next() calls (one in which opening the next file fails included),
\* the iterator holds an open reader, so the assertion at the start of next()
\* that a reader exists does not fail.
C19_OneOpenReader ==
    /\ iter_state = "ready" => ds_file.open
    /\ ~(iter_state = "aborted" /\ ~ds_file.open)

\* next() has returned END with the index at the number of files of the group
AtTerminalEnd ==
    /\ iter_state = "ready"
    /\ next_status = "END"
    /\ ds_file_info_index = Len(ds_file_infos)

\* C27 - Terminal End is stable: the file index never exceeds the number of
\* files of the group, and once next() has returned END with the index at
\* that number, a further next() whose reader reports END again returns END
\* and leaves the index where it is.
C27_TerminalEndStable ==
    /\ [](ds_file_info_index <= Len(ds_file_infos))
    /\ [][(AtTerminalEnd /\ ctf_fs_iterator_next /\ reader_status' = "END")
            => /\ next_status' = "END"
               /\ ds_file_info_index' = ds_file_info_index]_vars

(***************************************************************************)
(* Claims about the search for traces (SpecDisc)                           *)
(***************************************************************************)
RECURSIVE Searched(_, _)
\* the search comes to path n when nothing stops it early: every directory
\* above n is a directory without "metadata" that opens
Searched(tree, n) ==
    n = 1 \/ (tree[Parent(n)] = "dir" /\ Searched(tree, Parent(n)))

\* the outermost directories with a regular file "metadata"
OutermostTraces(tree) ==
    {n \in FsNodes : tree[n] \in {"trace", "trace_x"} /\ Searched(tree, n)}

\* the paths at which the search meets an error: a directory that fails to
\* open for a reason other than permission, a trace whose real path cannot be
\* found, and the path parameter itself when it is a trace and resolves to "/"
FatalPaths(tree, slash) ==
    {n \in FsNodes :
        /\ Searched(tree, n)
        /\ \/ tree[n] \in {"broken", "trace_x"}
           \/ n = 1 /\ slash /\ tree[n] = "trace"}

\* the paths the outermost traces lead to
CanonicalOutermost(fs) == {LinkTarget(fs, n) : n \in OutermostTraces(fs.tree)}

\* the paths of the list, as a set
FoundPaths == {trace_paths[i] : i \in 1..Len(trace_paths)}

\* C20: once the search has run, it succeeds exactly when it meets no error
\* (a directory closed for lack of permission is not one); when it succeeds,
\* the list holds exactly the outermost directories that have a regular file
\* "metadata", by their canonical paths, and in a tree without symbolic
\* links each once: a trace is listed and not searched, so a trace
\* inside a trace is not listed, directories that are not traces are
\* searched through, and nothing below a directory closed for lack of
\* permission is listed; a failed search lists only outermost traces
C20_DiscoveryCorrectness ==
    disc_pc # "start" =>
        /\ find_ret = 0 <=> FatalPaths(fs_tree, root_is_slash) = {}
        /\ find_ret = 0 =>
              /\ FoundPaths = CanonicalOutermost(FileSystem)
              /\ fs_link = 0 => Len(trace_paths) = Cardinality(FoundPaths)
        /\ FoundPaths \subseteq CanonicalOutermost(FileSystem)
        /\ disc_pc = "found" <=> (find_ret = 0 /\ trace_paths # << >>)

\* a search that succeeded on a tree with a trace below a plain directory, a
\* trace inside a trace and a directory closed for lack of permission
C20_Witness ==
    /\ disc_pc = "found" /\ find_ret = 0
    /\ fs_tree[1] = "dir" /\ fs_tree[2] = "dir" /\ fs_tree[3] = "trace"
    /\ fs_tree[4] = "trace" /\ fs_tree[5] = "denied" /\ fs_tree[6] = "trace"
    /\ FoundPaths = {3, 4}

\* C21: whenever the path parameter resolves to "/", the search fails, lists
\* nothing, no trace is created and the component's initialization fails
C21_RootRejection ==
    (disc_pc # "start" /\ root_is_slash) =>
        /\ create_ret # 0
        /\ trace_paths = << >>
        /\ traces = << >>
        /\ init_status = "ERROR"

\* C22: the names made for two entries of the list of traces differ
C22_NameUniqueness ==
    \A i \in 1..Len(trace_names) : \A j \in 1..Len(trace_names) :
        i # j => trace_names[i] # trace_names[j]

\* C23: when several traces are found and one of them fails to load, the
\* others are created and the component's initialization succeeds
C23_SchemaErrorIsolation ==
    (disc_pc = "found" /\ Len(trace_paths) >= 2 /\ load_fails # 0) =>
        /\ init_status = "OK"
        /\ Len(traces) = Len(trace_paths) - 1

\* the canonical paths of the traces found
FoundStrings == PathStrings(FileSystem, trace_paths)

\* the first k characters are the same in every path
CommonTo(paths, k) ==
    \A i \in 1..Len(paths) :
        Len(paths[i]) >= k /\ SubSeq(paths[i], 1, k) = SubSeq(paths[1], 1, k)

\* the lengths of the prefixes common to all paths that end with "/"
CommonSlashPrefixes(paths) ==
    {k \in 1..Len(paths[1]) : CommonTo(paths, k) /\ paths[1][k] = "/"}

\* the greatest number of a set of numbers
MaxOf(S) == CHOOSE x \in S : \A y \in S : y <= x

\* the part of a path behind its last "/"
LastComponent(str) ==
    LET last == MaxOf({i \in 1..Len(str) : str[i] = "/"})
    IN  SubSeq(str, last + 1, Len(str))

\* C28: when traces are found, there is a longest prefix common to all their
\* canonical paths that ends with "/", of length k; every name is its path
\* without the first k characters, is not empty and does not start with "/";
\* the name of a single trace is the last component of its path
C28_DisplayNameDerivation ==
    disc_pc = "found" =>
        /\ Len(trace_names) = Len(trace_paths)
        /\ CommonSlashPrefixes(FoundStrings) # {}
        /\ LET k == MaxOf(CommonSlashPrefixes(FoundStrings))
           IN  \A i \in 1..Len(trace_names) :
                  /\ trace_names[i] =
                        SubSeq(FoundStrings[i], k + 1, Len(FoundStrings[i]))
                  /\ trace_names[i] # << >>
                  /\ trace_names[i][1] # "/"
        /\ Len(trace_paths) = 1 =>
              trace_names[1] = LastComponent(FoundStrings[1])

\* two traces found whose paths part in the middle of a component, one of
\* them deeper than the other: "/r/ab/a" and "/r/ac"
C28_Witness ==
    /\ disc_pc = "found" /\ ~root_is_slash /\ fs_link = 0
    /\ fs_tree[2] = "dir" /\ fs_tree[3] = "trace" /\ fs_tree[4] = "trace"
    /\ trace_paths = <<3, 4>>
    /\ trace_names = << <<"a", "c">>, <<"a", "b", "/", "a">> >>

(***************************************************************************)
(* Further claims about the stream file groups and ports (SpecGroup)       *)
(***************************************************************************)
\* the ports that carry group i
PortsOf(i) == {k \in 1..Len(port_data) : port_data[k].ds_file_group = i}

\* C24: once a trace is created, every stream file group has exactly one
\* port, so there are as many ports as groups and no two ports carry the same
\* group; and every port is named after a file of its group that begins no
\* later than any other file of the group
C24_PortFanOut ==
    trace_pc = "done" =>
        /\ Len(port_data) = Len(ds_file_groups)
        /\ \A i \in 1..Len(ds_file_groups) : Cardinality(PortsOf(i)) = 1
        /\ \A k \in 1..Len(port_data) :
              /\ port_data[k].ds_file_group \in LiveGroups
              /\ \E j \in InfosOf(port_data[k].ds_file_group) :
                    LET infos == ds_file_groups[port_data[k].ds_file_group].infos
                    IN  /\ infos[j].path = port_data[k].name
                        /\ \A m \in 1..Len(infos) :
                              infos[j].begin_ns <= infos[m].begin_ns

\* a trace created from three stream files in two groups: two ports, and the
\* group of two files has its earliest file added last
C24_Witness ==
    /\ trace_pc = "done" /\ n_files = 3
    /\ Len(port_data) = 2
    /\ \E k \in 1..Len(port_data) :
          LET infos == ds_file_groups[port_data[k].ds_file_group].infos
          IN  /\ Len(infos) = 2
              /\ infos[1].path > infos[2].path
              /\ infos[1].begin_ns < infos[2].begin_ns
              /\ port_data[k].name = infos[1].path

\* the entries the stream file groups must not hold
ExcludedKinds == {"metadata", "hidden", "nonregular", "empty"}

\* the loop of create_ds_file_groups() went on to one more entry
EntryExamined == n_files' + n_ignored' = n_files + n_ignored + 1

FileHandedNow == n_files' = n_files + 1

\* the first packet of the file handed in this step carries no stream_id
NoStreamIdNow == FileHandedNow /\ last_header' \in {"absent", "no_stream_id"}

\* the file handed in this step sits in a group of stream class sc
GroupedNow(sc) ==
    \E i \in 1..Len(ds_file_groups') :
        /\ ds_file_groups'[i].live
        /\ ds_file_groups'[i].class = sc
        /\ \E j \in 1..Len(ds_file_groups'[i].infos) :
              ds_file_groups'[i].infos[j].path = n_files'

\* C29 - Implicit stream class: a stream file whose first packet has no packet
\* header, or a packet header without stream_id, in a trace with exactly one
\* stream class is resolved to that class, and when the call succeeds the
\* file sits in a group of that class.
C29_ImplicitStreamClass ==
    [][(NoStreamIdNow /\ stream_class_count = 1) =>
          /\ last_class' = 1
          /\ trace_pc' = "groups" => GroupedNow(1)]_vars

\* C30 - Ambiguous stream class: a stream file whose first packet has no
\* packet header, or a packet header without stream_id, in a trace with more
\* than one stream class is not resolved: the call fails and the groups are
\* left as they were.
C30_AmbiguousStreamClass ==
    [][(NoStreamIdNow /\ stream_class_count > 1) =>
          /\ last_class' = NoClass
          /\ trace_pc' = "error"
          /\ ds_file_groups' = ds_file_groups]_vars

\* C31 - Static marking order: while a trace is created it is marked static
\* exactly once and only when the creation succeeds: a trace is static exactly
\* when its creation has come to its successful end; the step that marks it
\* creates no group and leaves every group with its port; and once the trace
\* is static no group, stream or port is created and the mark stays.
C31_StaticMarkingOrder ==
    /\ [](is_static <=> trace_pc = "done")
    /\ [](is_static =>
             /\ \A i \in 1..Len(ds_file_groups) :
                   ds_file_groups[i].live /\ PortsOf(i) # {}
             /\ Len(port_data) = Len(ds_file_groups))
    /\ [][is_static' # is_static =>
             /\ ~is_static /\ is_static'
             /\ trace_pc = "groups"
             /\ ds_file_groups' = ds_file_groups]_vars
    /\ [][is_static => UNCHANGED <<ds_file_groups, port_data, is_static>>]_vars

C31_Witness ==
    /\ is_static
    /\ trace_pc = "done"
    /\ Len(ds_file_groups) >= 2
    /\ Len(port_data) >= 2
    /\ n_ignored >= 1

\* C32 - Group list holds only live groups: after add_ds_file_to_ds_file_group
\* returns, with success or with failure at any step, every group in the
\* trace's group list is live (not destroyed) and is in the list once, so no
\* destroyed group is in the list or has been added to it.
C32_GroupListHoldsLiveGroups ==
    /\ \A i \in 1..Len(ds_file_groups) : ds_file_groups[i].live
    /\ \A i, j \in 1..Len(ds_file_groups) :
          (/\ i # j
           /\ ds_file_groups[i].id # U64None
           /\ ds_file_groups[i].class = ds_file_groups[j].class)
          => ds_file_groups[i].id # ds_file_groups[j].id

(***************************************************************************)
(* Further claims about the sink (SpecSink)                                *)
(***************************************************************************)
\* C33 - Failed packet-begin is atomic: when the handler of a packet-begin
\* notification returns an error, at whatever step, trace_map,
\* stream_class_map, stream_map and the output directory counter are as they
\* were before the call.
C33_FailedPacketBeginAtomic ==
    [][(HandedNow("PB") /\ sink_ret' = "ERROR")
         => UNCHANGED <<trace_map, stream_class_map, stream_map, trace_id>>]_vars

\* the input streams that are keys of stream_map
MappedStreams == {s \in InStreams : stream_map[s] # NoHandle}

\* C34 - Sink map consistency: in every reachable state, an input stream that
\* is a key of stream_map has its stream class as a key of stream_class_map
\* and that class's trace as a key of trace_map, and its output stream was
\* created from the mapped output stream class in the mapped writer; hence an
\* event for a stream that has had a successful packet-begin finds the output
\* stream class.
C34_SinkMapConsistency ==
    /\ [](\A s \in MappedStreams :
            LET os == out_streams[stream_map[s]]
                oc == stream_class_map[ClassOf(s)]
                w == trace_map[TraceOf(ClassOf(s))]
            IN  /\ oc # NoHandle
                /\ w # NoHandle
                /\ os.from = s
                /\ os.class = oc
                /\ os.writer = w
                /\ out_classes[oc].from = ClassOf(s)
                /\ out_classes[oc].writer = w
                /\ writers[w].trace = TraceOf(ClassOf(s))
                /\ writers[w].fate = "kept")
    /\ [](\A s \in InStreams : packet_state[s] # "Uninit" => s \in MappedStreams)
    /\ [][(HandedNow("E") /\ packet_state[sink_notif'.stream] # "Uninit")
            => /\ lookup_stream(SinkState, sink_notif'.stream) # NoHandle
               /\ lookup_stream_class(SinkState, ClassOf(sink_notif'.stream))
                     # NoHandle]_vars

C34_Witness ==
    /\ sink_notif.kind = "E"
    /\ sink_ret = "OK"
    /\ packet_state[sink_notif.stream] = "PacketOpen"
    /\ \E s, t \in MappedStreams : TraceOf(ClassOf(s)) # TraceOf(ClassOf(t))
    /\ \E i \in 1..Len(writers) : writers[i].fate # "kept"

(***************************************************************************)
(* Claims about the metadata-info query (SpecQuery)                        *)
(***************************************************************************)
\* C26: a query that succeeds returns a text that starts with the signature;
\* a file text that starts with the signature is returned as it is, any other
\* has the signature line put in front of it; and is-packetized is the
\* outcome of the packetized test
C26_MetadataQuerySignature ==
    results.ok =>
        /\ IsPrefix(SigText, results.text)
        /\ IsPrefix(SigText, metadata_text) => results.text = metadata_text
        /\ ~IsPrefix(SigText, metadata_text) =>
              results.text = SigText \o SigEnd \o metadata_text
        /\ results.is_packetized = is_packetized

\* a query that succeeded on a packetized file whose text starts with the
\* signature and goes on behind it
C26_Witness ==
    /\ results.ok /\ is_packetized
    /\ IsPrefix(SigText, metadata_text)
    /\ Len(metadata_text) > Len(SigText)
    /\ results.text = metadata_text

====
